---- MODULE Spec2Model ----
(***************************************************************************)
(* Bildstod: the picture library, the schedule and its items, schedule     *)
(* persistence, the NowView progression controller and the TimerWidget,    *)
(* modelled from src/src/bildstod/{library,schedule,now_view,timer,main}.py *)
(*                                                                         *)
(* Conventions                                                             *)
(*  - a Python dict is a TLA+ record; d.get(k, default) is Get(d,k,default)*)
(*  - a uuid string is a number of 1..MaxUuid, the empty string id is NoId *)
(*  - a file name "<stem><ext>" is [stem |-> uuid, ext |-> chars], the     *)
(*    empty file name "" is NoFile; a string that the code inspects        *)
(*    (a path's name) is a sequence of one-character strings               *)
(*  - an object reference to a ScheduleItem is the item's id (ids are      *)
(*    unique inside the schedules this model builds); None is NoId         *)
(***************************************************************************)
EXTENDS Integers, Sequences, FiniteSets, TLC

\* ------------------------------------------------------------------ bounds
\* most items a schedule is grown to by the add handlers
MaxItems == 3
\* size of the pool that uuid.uuid4() draws from
MaxUuid == 5
\* most GLib timeout sources alive at once
MaxSources == 2

\* ------------------------------------------------------- program constants
\* timer.py: int(minutes * 60)
SecondsPerMinute == 60
\* schedule.py: ScheduleItem.__init__ / from_dict / from_library_item default
DefaultDuration == 30

NoId == 0
None == 0
NoFile == [stem |-> 0, ext |-> <<>>]
Uuids == 1..MaxUuid

\* dict.get(key, default)
Get(d, k, default) == IF k \in DOMAIN d THEN d[k] ELSE default

\* ---------------------------------------------------------------- strings
\* str.lower() on the characters that occur in the modelled file names
LowerChar(c) ==
    CASE c = "P" -> "p" [] c = "N" -> "n" [] c = "G" -> "g"
      [] c = "J" -> "j" [] c = "S" -> "s" [] c = "V" -> "v"
      [] c = "E" -> "e" [] c = "I" -> "i" [] c = "F" -> "f"
      [] OTHER -> c

Lower(s) == [i \in DOMAIN s |-> LowerChar(s[i])]

\* str.rfind("."): the last index holding ".", 0 when there is none
\* (Python's -1; indices here are 1-based)
RFindDot(s) ==
    LET dots == {i \in DOMAIN s : s[i] = "."}
    IN  IF dots = {} THEN 0 ELSE CHOOSE i \in dots : \A j \in dots : j <= i

\* pathlib.PurePath.suffix of a file name: name[i:] for i = name.rfind(".")
\* when 0 < i < len(name) - 1 (0-based), else ""
Suffix(name) ==
    LET i == RFindDot(name)
    IN  IF 1 < i /\ i < Len(name) THEN SubSeq(name, i, Len(name)) ELSE <<>>

\* library.py:75 the allow-list
AllowedExts ==
    { <<".", "p", "n", "g">>, <<".", "j", "p", "g">>,
      <<".", "j", "p", "e", "g">>, <<".", "s", "v", "g">> }

\* ---------------------------------------------------------- ScheduleItem
\* ScheduleItem.__init__ with a freshly generated id
ScheduleItem(uid, library_id, label, image_filename, time_str, duration, done, category) ==
    [id |-> uid, library_id |-> library_id, label |-> label,
     image_filename |-> image_filename, time_str |-> time_str,
     duration |-> duration, done |-> done, category |-> category]

NewScheduleItem(uid) ==
    ScheduleItem(uid, NoId, "", NoFile, "08:00", DefaultDuration, FALSE, "other")

\* x or 30 : Python truthiness of a number
OrDefault(x, default) == IF x = 0 THEN default ELSE x

from_library_item_mut_keep0(uid, lib_item) ==
    [NewScheduleItem(uid) EXCEPT
        !.library_id = lib_item["id"],
        !.label = lib_item["label"],
        !.image_filename = lib_item["filename"],
        !.duration = Get(lib_item, "duration", DefaultDuration),
        !.category = Get(lib_item, "category", "other")]

\* ScheduleItem.from_library_item
from_library_item(uid, lib_item) ==
    [NewScheduleItem(uid) EXCEPT
        !.library_id = lib_item["id"],
        !.label = lib_item["label"],
        !.image_filename = lib_item["filename"],
        !.duration = OrDefault(Get(lib_item, "duration", DefaultDuration), DefaultDuration),
        !.category = Get(lib_item, "category", "other")]

item_to_dict_mut_no_done(item) ==
    [id |-> item.id, library_id |-> item.library_id, label |-> item.label,
     image_filename |-> item.image_filename, time_str |-> item.time_str,
     duration |-> item.duration, category |-> item.category]

\* ScheduleItem.to_dict
item_to_dict(item) ==
    [id |-> item.id, library_id |-> item.library_id, label |-> item.label,
     image_filename |-> item.image_filename, time_str |-> item.time_str,
     duration |-> item.duration, done |-> item.done, category |-> item.category]

\* ScheduleItem.from_dict; uid is the id cls() generated, kept only when the
\* dict has no "id"
item_from_dict(uid, d) ==
    [id |-> Get(d, "id", uid),
     library_id |-> Get(d, "library_id", NoId),
     label |-> Get(d, "label", ""),
     image_filename |-> Get(d, "image_filename", NoFile),
     time_str |-> Get(d, "time_str", "08:00"),
     duration |-> Get(d, "duration", DefaultDuration),
     done |-> Get(d, "done", FALSE),
     category |-> Get(d, "category", "other")]

\* -------------------------------------------------------------- Schedule
add_item_mut_prepend(items, item) == <<item>> \o items

\* Schedule.add_item
add_item(items, item) == Append(items, item)

RECURSIVE FilterOutId(_, _)
FilterOutId(items, item_id) ==
    IF items = <<>> THEN <<>>
    ELSE IF Head(items).id # item_id
         THEN <<Head(items)>> \o FilterOutId(Tail(items), item_id)
         ELSE FilterOutId(Tail(items), item_id)

\* Schedule.remove_item
remove_item(items, item_id) == FilterOutId(items, item_id)

RECURSIVE ScanCurrent(_, _)
ScanCurrent(items, i) ==
    IF i > Len(items) THEN 0
    ELSE IF ~items[i].done THEN i
    ELSE ScanCurrent(items, i + 1)

get_current_activity_mut_last(items) ==
    LET pend == {i \in DOMAIN items : ~items[i].done}
    IN  IF pend = {} THEN 0 ELSE CHOOSE i \in pend : \A j \in pend : j <= i

\* Schedule.get_current_activity: the index of the item returned, 0 for None
get_current_activity(items) == ScanCurrent(items, 1)

RECURSIVE ScanNext(_, _, _, _)
ScanNext(items, cur_id, i, found) ==
    IF i > Len(items) THEN 0
    ELSE IF found /\ ~items[i].done THEN i
    ELSE ScanNext(items, cur_id, i + 1, found \/ items[i].id = cur_id)

get_next_activity_mut_any_pending(items, cur_id) ==
    ScanNext(items, cur_id, 1, TRUE)

\* Schedule.get_next_activity(current): the index of the item returned, 0 for
\* None; cur_id is current.id
get_next_activity(items, cur_id) == ScanNext(items, cur_id, 1, FALSE)

\* the id of the item at index i, None for index 0
ItemRef(items, i) == IF i = 0 THEN None ELSE items[i].id

\* ------------------------------------------------------------------ state
VARIABLES
    lib_items,          \* PictureLibrary.items
    lib_file,           \* library.json: [state: "ok" | "missing" | "corrupt" | "undecodable", data]
    images,             \* the file names present in the images directory
    returned,           \* how the last PictureLibrary.add_image call ended: "-" before any
                        \* call, "None", "item", or "raised"
    removed,            \* how the last PictureLibrary.remove_image call ended: "-" before
                        \* any call, "absent" (no item had the id), "removed", or "raised"
    disk_faults,        \* whether writes under the config and data directories can fail
                        \* in this run of the program
    adds_running,       \* ArasaacSearchView do_add threads that have not finished their
                        \* download: pictogram id -> number of threads
    adds_idle,          \* the _finish_add calls GLib.idle_add has queued, oldest first:
                        \* [picto_id, path] with path TRUE for a file path, FALSE for None
    schedule,           \* ScheduleView.schedule: [name, date, items]
    sched_files,        \* the schedules directory: file name -> saved dict
    now_schedule,       \* NowView.schedule: "None", "attached" (the ScheduleView's object),
                        \* or "stale" (the object the ScheduleView held before a load
                        \* that ended in an error)
    current_item,       \* NowView.current_item: an item id, or None
    done_btn_sensitive, \* NowView.done_btn sensitivity
    total_seconds,      \* TimerWidget.total_seconds
    remaining_seconds,  \* TimerWidget.remaining_seconds
    running,            \* TimerWidget.running
    timer_id,           \* TimerWidget.timer_id: a source id, None, or a stale id
    timer_visible,      \* TimerWidget visibility
    sources,            \* GLib main loop: the live 1000 ms timeout sources bound to _tick
    finish_state,       \* history of _on_finished(): "idle" before any start(), "armed"
                        \* by start(), "raised" by the first call after it, "extra" by
                        \* a call that no start() accounts for
    status,             \* MainWindow.status_label: <<message, argument>>
    tpl_files,          \* the templates directory: file name -> saved template dict
    fetch_threads       \* the _fetch_images threads still running, oldest first:
                        \* [attached, queue], attached while the schedule the thread's
                        \* items belong to is the ScheduleView's, queue the
                        \* <<item id, pictogram id>> pairs not yet attempted

arasaacVars == <<adds_running, adds_idle>>
envVars == <<disk_faults>>
tplVars == <<tpl_files, fetch_threads>>
libVars == <<lib_items, lib_file, images, returned, removed, arasaacVars, envVars>>
schedVars == <<schedule, sched_files>>
nowVars == <<now_schedule, current_item, done_btn_sensitive>>
timerVars == <<total_seconds, remaining_seconds, running, timer_id, timer_visible,
               sources, finish_state>>
vars == <<lib_items, lib_file, images, returned, removed, disk_faults, adds_running, adds_idle,
          schedule, sched_files,
          now_schedule, current_item, done_btn_sensitive,
          total_seconds, remaining_seconds, running, timer_id, timer_visible,
          sources, finish_state, status, tpl_files, fetch_threads>>

png == <<".", "p", "n", "g">>

\* the pictograms a search shows
Pictos == {1, 2}

\* f"arasaac_{picto_id}", the id and the file stem of a pictogram: a string no
\* uuid equals, here the negative of the pictogram id
ArasaacId(picto_id) == 0 - picto_id

\* f"arasaac_{picto_id}.png"
ArasaacFile(picto_id) == [stem |-> ArasaacId(picto_id), ext |-> png]

\* a library.json holding one picture with a one-minute activity
TimerLibrary ==
    << [id |-> 1, filename |-> [stem |-> 1, ext |-> png], label |-> "Breakfast",
        category |-> "meals", duration |-> 1] >>

\* a library.json holding two pictures
DemoLibrary ==
    << [id |-> 1, filename |-> [stem |-> 1, ext |-> png], label |-> "Breakfast",
        category |-> "meals", duration |-> 1],
       [id |-> 2, filename |-> [stem |-> 2, ext |-> png], label |-> "Play",
        category |-> "play", duration |-> 2] >>

\* library.json holds items written by add_image (duration 0 from the import
\* dialog, 20 from a caller that passes one) or by hand (no "duration" key)
InitialLibraries ==
    { <<>>,
      DemoLibrary,
      << [id |-> 1, filename |-> [stem |-> 1, ext |-> png], label |-> "Breakfast",
          category |-> "meals", duration |-> 20],
         [id |-> 2, filename |-> [stem |-> 2, ext |-> png], label |-> "Lunch",
          category |-> "meals", duration |-> 0],
         [id |-> 3, filename |-> [stem |-> 3, ext |-> png], label |-> "Play"] >> }

SeqRange(s) == {s[i] : i \in DOMAIN s}
FileNames(items) == {it["filename"] : it \in SeqRange(items)}

\* PictureLibrary.load on a PictureLibrary holding items: the list read from
\* library.json, [] when the file is missing, cannot be opened or is not JSON.
\* Bytes that are not UTF-8 make json.load raise UnicodeDecodeError, a
\* ValueError that load does not catch: self.items stays as it was and the
\* error leaves load
PictureLibrary_load(file, items) ==
    CASE file.state = "ok" -> file.data
      [] file.state = "undecodable" -> items
      [] OTHER -> <<>>

\* _("New Schedule"), the name Schedule.__init__ gives
NewScheduleName == <<"N", "e", "w", " ", "S", "c", "h", "e", "d", "u", "l", "e">>

\* date.today().isoformat() on the day of the run
Today == "2026-11-01"

\* the state after MainWindow.__init__ with library.json holding lib, on a disk
\* that can fail (faults) or cannot
InitFull(lib, faults, cached, templates, files) ==
    /\ disk_faults = faults
    /\ lib_file = [state |-> "ok", data |-> lib]
    /\ lib_items = PictureLibrary_load(lib_file, <<>>)
    /\ images = FileNames(lib) \cup cached
    /\ returned = "-"
    /\ removed = "-"
    /\ adds_running = [p \in Pictos |-> 0]
    /\ adds_idle = <<>>
    /\ schedule = [name |-> NewScheduleName, date |-> Today, items |-> <<>>]
    /\ sched_files = files
    /\ now_schedule = "None"
    /\ current_item = None
    /\ done_btn_sensitive = TRUE
    /\ total_seconds = 0
    /\ remaining_seconds = 0
    /\ running = FALSE
    /\ timer_id = None
    /\ timer_visible = TRUE
    /\ sources = {}
    /\ finish_state = "idle"
    /\ status = <<"Ready", "">>
    /\ tpl_files = templates
    /\ fetch_threads = <<>>

\* no pictogram of a template downloaded, no template and no schedule saved
InitState(lib, faults) == InitFull(lib, faults, {}, <<>>, <<>>)

InitWith(lib) == InitState(lib, TRUE)

Init == InitWith(TimerLibrary)

InitEdit == InitWith(TimerLibrary)

InitLibrary == \E lib \in InitialLibraries : InitWith(lib)

InitArasaac == InitState(TimerLibrary, FALSE)

\* ------------------------------------------------------------ TimerWidget
\* the TimerWidget's fields together with the main loop's tick sources
CurTimer ==
    [total_seconds |-> total_seconds, remaining_seconds |-> remaining_seconds,
     running |-> running, timer_id |-> timer_id, visible |-> timer_visible,
     sources |-> sources, finish_state |-> finish_state]

SetTimer(T) ==
    /\ total_seconds' = T.total_seconds
    /\ remaining_seconds' = T.remaining_seconds
    /\ running' = T.running
    /\ timer_id' = T.timer_id
    /\ timer_visible' = T.visible
    /\ sources' = T.sources
    /\ finish_state' = T.finish_state

\* GLib.timeout_add: the id of the new source, an id no live source has and
\* that is not the (possibly stale) id the widget still holds
NewSourceId(srcs, held) ==
    CHOOSE n \in 1..(Cardinality(srcs) + 2) :
        /\ n \notin srcs /\ n # held
        /\ \A m \in 1..(Cardinality(srcs) + 2) : (m \notin srcs /\ m # held) => n <= m

\* GLib.source_remove(id): removes the source if it is still alive
SourceRemove(srcs, id) == srcs \ {id}

Timer_start_mut_keep_source(T, minutes) ==
    LET new == NewSourceId(T.sources, T.timer_id)
    IN  [T EXCEPT !.total_seconds = minutes * SecondsPerMinute,
                  !.remaining_seconds = minutes * SecondsPerMinute,
                  !.running = TRUE,
                  !.sources = T.sources \cup {new},
                  !.timer_id = new,
                  !.finish_state = "armed"]

\* TimerWidget.start(minutes)
Timer_start(T, minutes) ==
    LET kept == IF T.timer_id # None THEN SourceRemove(T.sources, T.timer_id)
                ELSE T.sources
        new == NewSourceId(kept, T.timer_id)
    IN  [T EXCEPT !.total_seconds = minutes * SecondsPerMinute,
                  !.remaining_seconds = minutes * SecondsPerMinute,
                  !.running = TRUE,
                  !.sources = kept \cup {new},
                  !.timer_id = new,
                  !.finish_state = "armed"]

Timer_stop_mut_reset(T) ==
    [T EXCEPT !.running = FALSE,
              !.remaining_seconds = 0,
              !.sources = SourceRemove(T.sources, T.timer_id),
              !.timer_id = None]

\* TimerWidget.stop()
Timer_stop(T) ==
    IF T.timer_id # None
    THEN [T EXCEPT !.running = FALSE,
                   !.sources = SourceRemove(T.sources, T.timer_id),
                   !.timer_id = None]
    ELSE [T EXCEPT !.running = FALSE]

\* ----------------------------------------------------------------- NowView
ItemById(items, id) == items[CHOOSE i \in DOMAIN items : items[i].id = id]

\* NowView._update_display: the timer and the Done button after it ran for
\* current item cur (an id or None)
NowView_update_display(cur, items, T) ==
    IF cur = None
    THEN [timer |-> Timer_stop(T), done_btn |-> FALSE]
    ELSE LET item == ItemById(items, cur)
         IN  IF item.duration > 0
             THEN [timer |-> [Timer_start(T, item.duration) EXCEPT !.visible = TRUE],
                   done_btn |-> TRUE]
             ELSE [timer |-> [T EXCEPT !.visible = FALSE], done_btn |-> TRUE]

SetDisplay(D) ==
    /\ SetTimer(D.timer)
    /\ done_btn_sensitive' = D.done_btn

NowView_update_schedule_mut_last(items) ==
    LET cur == ItemRef(items, get_current_activity_mut_last(items))
    IN  /\ now_schedule' = "attached"
        /\ current_item' = cur
        /\ SetDisplay(NowView_update_display(cur, items, CurTimer))

\* NowView.update_schedule(schedule), reached from ScheduleView._notify_change
\* through MainWindow._on_schedule_changed; items is the schedule's item list
NowView_update_schedule(items) ==
    LET cur == ItemRef(items, get_current_activity(items))
    IN  /\ now_schedule' = "attached"
        /\ current_item' = cur
        /\ SetDisplay(NowView_update_display(cur, items, CurTimer))

MarkDone_mut_none(items, id) == items

MarkDone_mut_by_label(items, id) ==
    [i \in DOMAIN items |->
        IF items[i].label = ItemById(items, id).label
        THEN [items[i] EXCEPT !.done = TRUE] ELSE items[i]]

MarkDone_mut_toggle(items, id) ==
    [i \in DOMAIN items |->
        IF items[i].id = id THEN [items[i] EXCEPT !.done = ~items[i].done] ELSE items[i]]

\* current_item.done = True
MarkDone(items, id) ==
    [i \in DOMAIN items |->
        IF items[i].id = id THEN [items[i] EXCEPT !.done = TRUE] ELSE items[i]]

\* an advance that marks the item done and keeps showing it
NowView_advance_mut_stay(T) ==
    IF current_item # None
    THEN LET items2 == MarkDone(schedule.items, current_item)
         IN  /\ schedule' = [schedule EXCEPT !.items = items2]
             /\ status' = <<"Completed", ItemById(schedule.items, current_item).label>>
             /\ SetDisplay(NowView_update_display(current_item, items2, T))
             /\ UNCHANGED <<now_schedule, current_item>>
    ELSE /\ SetTimer(T)
         /\ UNCHANGED <<schedule, status, nowVars>>

\* the body NowView._on_done_clicked and NowView._skip_activity share, run with
\* the timer in state T: mark, report through MainWindow._on_activity_done,
\* re-query, redisplay
NowView_advance(T) ==
    IF current_item # None
    THEN LET items2 == MarkDone(schedule.items, current_item)
             cur2 == IF now_schedule = "attached"
                     THEN ItemRef(items2, get_current_activity(items2))
                     ELSE current_item
         IN  /\ schedule' = [schedule EXCEPT !.items = items2]
             /\ status' = <<"Completed", ItemById(schedule.items, current_item).label>>
             /\ current_item' = cur2
             /\ SetDisplay(NowView_update_display(cur2, items2, T))
             /\ UNCHANGED now_schedule
    ELSE /\ SetTimer(T)
         /\ UNCHANGED <<schedule, status, nowVars>>

\* NowView._on_done_clicked (the Done! button; an insensitive button emits no click)
NowView_on_done_clicked ==
    /\ done_btn_sensitive
    /\ NowView_advance(CurTimer)
    /\ UNCHANGED <<libVars, tplVars, sched_files>>

\* TimerWidget._on_skip_clicked: stop(), then NowView._skip_activity
Timer_on_skip_clicked ==
    /\ timer_visible
    /\ NowView_advance(Timer_stop(CurTimer))
    /\ UNCHANGED <<libVars, tplVars, sched_files>>

NowView_timer_finished_mut_advance ==
    /\ status' = <<"Time's up for", "">>
    /\ IF current_item # None
       THEN LET items2 == MarkDone(schedule.items, current_item)
            IN  /\ schedule' = [schedule EXCEPT !.items = items2]
                /\ current_item' = ItemRef(items2, get_current_activity(items2))
       ELSE UNCHANGED <<schedule, current_item>>
    /\ UNCHANGED <<now_schedule, done_btn_sensitive>>

\* NowView._timer_finished: a status line, nothing else
NowView_timer_finished ==
    /\ status' = <<"Time's up for",
                   IF current_item # None
                   THEN ItemById(schedule.items, current_item).label ELSE "">>
    /\ UNCHANGED <<schedule, nowVars>>

\* TimerWidget._on_pause (the Pause / Resume button)
Timer_on_pause ==
    /\ timer_visible
    /\ IF running
       THEN /\ running' = FALSE
            /\ UNCHANGED <<timer_id, sources>>
       ELSE /\ Cardinality(sources) < MaxSources
            /\ running' = TRUE
            /\ LET new == NewSourceId(sources, timer_id)
               IN  /\ timer_id' = new
                   /\ sources' = sources \cup {new}
    /\ UNCHANGED <<total_seconds, remaining_seconds, timer_visible, finish_state>>
    /\ UNCHANGED <<libVars, tplVars, schedVars, nowVars, status>>

\* TimerWidget._tick, called by the main loop for live source s; returning
\* False destroys the source
Timer_tick(s) ==
    /\ s \in sources
    /\ IF ~running
       THEN /\ sources' = sources \ {s}
            /\ UNCHANGED <<remaining_seconds, running, finish_state>>
            /\ UNCHANGED <<schedule, nowVars, status>>
       ELSE IF remaining_seconds - 1 <= 0
       THEN /\ remaining_seconds' = 0
            /\ running' = FALSE
            /\ finish_state' = IF finish_state = "armed" THEN "raised" ELSE "extra"
            /\ NowView_timer_finished
            /\ sources' = sources \ {s}
       ELSE /\ remaining_seconds' = remaining_seconds - 1
            /\ UNCHANGED <<running, finish_state, sources>>
            /\ UNCHANGED <<schedule, nowVars, status>>
    /\ UNCHANGED <<total_seconds, timer_id, timer_visible>>
    /\ UNCHANGED <<libVars, tplVars, sched_files>>

\* ------------------------------------------------------------ ScheduleView
ItemIds(items) == {items[i].id : i \in DOMAIN items}
SavedIds ==
    UNION ({ItemIds(Get(sched_files[k].data, "items", <<>>)) : k \in DOMAIN sched_files}
           \cup {ItemIds(Get(tpl_files[k].data, "items", <<>>)) : k \in DOMAIN tpl_files})
LibIds(items) == {items[i]["id"] : i \in DOMAIN items}

\* the ids some object or file of the program holds
UsedUuids ==
    ItemIds(schedule.items) \cup LibIds(lib_items) \cup LibIds(lib_file.data)
        \cup SavedIds \cup {current_item} \cup {f.stem : f \in images}

\* what uuid.uuid4() returns: an id nothing holds. Ids are only ever compared
\* for equality, so the smallest unused one stands for any fresh id; the set is
\* empty when the pool is used up
NewUuids ==
    {u \in Uuids \ UsedUuids : \A v \in Uuids \ UsedUuids : u <= v}

\* from_library_item, add_item, _populate_timeline, _notify_change
ScheduleView_add(lib_item, uid, message) ==
    LET sched_item == from_library_item(uid, lib_item)
        items2 == add_item(schedule.items, sched_item)
    IN  /\ schedule' = [schedule EXCEPT !.items = items2]
        /\ NowView_update_schedule(items2)
        /\ status' = <<message, sched_item.label>>
        /\ UNCHANGED <<libVars, tplVars, sched_files>>

\* ScheduleView._on_drop: a library card dragged onto the timeline
ScheduleView_on_drop ==
    \E i \in DOMAIN lib_items, uid \in NewUuids :
        /\ Len(schedule.items) < MaxItems
        /\ ScheduleView_add(lib_items[i], uid, "Added")

\* ScheduleView._on_add_dialog_response("add") with a selected row
ScheduleView_on_add_dialog_response ==
    \E i \in DOMAIN lib_items, uid \in NewUuids :
        /\ Len(schedule.items) < MaxItems
        /\ ScheduleView_add(lib_items[i], uid, "Added")

\* MainWindow._on_library_item_activated
MainWindow_on_library_item_activated ==
    \E i \in DOMAIN lib_items, uid \in NewUuids :
        /\ Len(schedule.items) < MaxItems
        /\ ScheduleView_add(lib_items[i], uid, "Added to schedule")

\* the rows the user edits: the row at the top, and the row of any activity
\* that was added from the library
EditRows(items) == {i \in DOMAIN items : i = 1 \/ items[i].id <= MaxUuid}

\* ScheduleView._on_remove_item for the row of item i
ScheduleView_on_remove_item ==
    \E i \in EditRows(schedule.items) :
        LET items2 == remove_item(schedule.items, schedule.items[i].id)
        IN  /\ schedule' = [schedule EXCEPT !.items = items2]
            /\ NowView_update_schedule(items2)
            /\ UNCHANGED <<libVars, tplVars, sched_files, status>>

\* ScheduleView._on_done_toggled for the row of item i: the check button was
\* built showing item.done, so a toggle reports the opposite
ScheduleView_on_done_toggled ==
    \E i \in EditRows(schedule.items) :
        LET items2 == [schedule.items EXCEPT ![i].done = ~schedule.items[i].done]
        IN  /\ schedule' = [schedule EXCEPT !.items = items2]
            /\ NowView_update_schedule(items2)
            /\ UNCHANGED <<libVars, tplVars, sched_files, status>>

TimeTexts == {"08:00", "09:30"}

\* a time edit that writes through to the saved templates holding the item
ScheduleView_on_time_changed_mut_live ==
    \E i \in EditRows(schedule.items), text \in TimeTexts :
        LET live(d) ==
                [d EXCEPT !.items =
                    [j \in DOMAIN d.items |->
                        IF d.items[j]["id"] = schedule.items[i].id
                        THEN [d.items[j] EXCEPT !["time_str"] = text] ELSE d.items[j]]]
        IN  /\ schedule' = [schedule EXCEPT !.items[i].time_str = text]
            /\ tpl_files' =
                   [k \in DOMAIN tpl_files |->
                       IF tpl_files[k].state = "ok"
                       THEN [tpl_files[k] EXCEPT !.data = live(tpl_files[k].data)]
                       ELSE tpl_files[k]]
            /\ UNCHANGED <<libVars, fetch_threads, sched_files, nowVars, timerVars, status>>

\* ScheduleView._on_time_changed for the row of item i
ScheduleView_on_time_changed ==
    \E i \in EditRows(schedule.items), text \in TimeTexts :
        /\ schedule' = [schedule EXCEPT !.items[i].time_str = text]
        /\ UNCHANGED <<libVars, tplVars, sched_files, nowVars, timerVars, status>>

\* --------------------------------------------------------- PictureLibrary
ExtAllowed_mut_startswith(ext) ==
    \E a \in AllowedExts : Len(ext) >= Len(a) /\ SubSeq(ext, 1, Len(a)) = a

\* library.py:75  ext not in (".png", ".jpg", ".jpeg", ".svg")
ExtAllowed(ext) == ext \in AllowedExts

PictureLibrary_save_mut_skip(items, io) == lib_file

\* PictureLibrary.save: library.json after a write that succeeds ("ok"), that
\* fails before the file is opened ("fails"), or that fails part of the way
\* ("fails_partial")
PictureLibrary_save(items, io) ==
    CASE io = "ok" -> [state |-> "ok", data |-> items]
      [] io = "fails" -> lib_file
      [] io = "fails_partial" -> [state |-> "corrupt", data |-> <<>>]

get_by_id_mut_first(items, item_id) == IF items = <<>> THEN 0 ELSE 1

get_by_id_mut_none(items, item_id) == 0

\* how a write of library.json can end on this disk
SaveOutcomes == IF disk_faults THEN {"ok", "fails", "fails_partial"} ELSE {"ok"}

\* PictureLibrary.get_by_id: the index of the first item with the id, 0 for None
get_by_id(items, item_id) ==
    LET hits == {i \in DOMAIN items : items[i]["id"] = item_id}
    IN  IF hits = {} THEN 0 ELSE CHOOSE i \in hits : \A j \in hits : i <= j

\* PictureLibrary.add_image(source_path, label, category, duration); name is
\* the source path's file name and uid the new uuid. Past the extension check
\* the disk decides: shutil.copy2 raises ("copy_fails"), or the image is copied
\* and the item appended, and save succeeds or raises in one of two ways
PictureLibrary_add_image(name, label, category, duration, uid) ==
    LET ext == Lower(Suffix(name))
        dest == [stem |-> uid, ext |-> ext]
        item == [id |-> uid, filename |-> dest, label |-> label,
                 category |-> category, duration |-> duration]
    IN  IF ~ExtAllowed(ext)
        THEN /\ returned' = "None"
             /\ UNCHANGED <<lib_items, lib_file, images>>
        ELSE \E io \in SaveOutcomes \cup (IF disk_faults THEN {"copy_fails"} ELSE {}) :
               IF io = "copy_fails"
               THEN /\ returned' = "raised"
                    /\ UNCHANGED <<lib_items, lib_file, images>>
               ELSE /\ images' = images \cup {dest}
                    /\ lib_items' = Append(lib_items, item)
                    /\ lib_file' = PictureLibrary_save(lib_items', io)
                    /\ returned' = IF io = "ok" THEN "item" ELSE "raised"

\* the names of the files a user picks, as characters
GoodSources ==
    { <<"a", ".", "p", "n", "g">>, <<"b", ".", "P", "N", "G">>,
      <<"c", ".", "j", "p", "g", ".", "P", "n", "g">> }

BadSources ==
    { <<"d", ".", "g", "i", "f">>, <<"e">>, <<"f", ".", "p", "n", "g", "x">>,
      <<"g", ".", "p", "n", "g", ".", "t", "x", "t">>, <<"h", ".", "P", "N">> }

Sources == GoodSources \cup BadSources

\* most pictures the import dialog grows the library to; an import that is
\* rejected is possible at any size
MaxLib == 1

\* LibraryView._on_add_response("add"): add_image with the dialog's label and
\* the selected category, then the status line unless add_image raised
LibraryView_on_add_response ==
    \E name \in Sources, uid \in NewUuids :
        /\ ExtAllowed(Lower(Suffix(name))) => Len(lib_items) < MaxLib
        /\ PictureLibrary_add_image(name, "Lunch", "meals", 0, uid)
        /\ status' = IF returned' = "raised" THEN status ELSE <<"Image imported", "Lunch">>
        /\ UNCHANGED <<removed, arasaacVars, envVars, tplVars, schedVars, nowVars, timerVars>>

\* PictureLibrary.remove_image(item_id); when an item is found the save
\* succeeds or raises in one of two ways
PictureLibrary_remove_image(item_id) ==
    LET i == get_by_id(lib_items, item_id)
    IN  IF i # 0
        THEN \E io \in SaveOutcomes :
             /\ images' = images \ {lib_items[i]["filename"]}
             /\ lib_items' = SelectSeq(lib_items, LAMBDA it : it["id"] # item_id)
             /\ lib_file' = PictureLibrary_save(lib_items', io)
             /\ removed' = IF io = "ok" THEN "removed" ELSE "raised"
        ELSE /\ removed' = "absent"
             /\ UNCHANGED <<lib_items, lib_file, images>>

\* a caller's remove_image(item_id) with any id, held by an item or not
PictureLibrary_remove_image_call ==
    \E item_id \in Uuids :
        /\ PictureLibrary_remove_image(item_id)
        /\ UNCHANGED <<returned, arasaacVars, envVars, tplVars, schedVars, nowVars, timerVars, status>>

\* LibraryView._on_remove_clicked with the card of item i selected
LibraryView_on_remove_clicked ==
    \E i \in DOMAIN lib_items :
        /\ PictureLibrary_remove_image(lib_items[i]["id"])
        /\ status' = IF removed' = "raised" THEN status
                     ELSE <<"Image removed", Get(lib_items[i], "label", "")>>
        /\ UNCHANGED <<returned, arasaacVars, envVars, tplVars, schedVars, nowVars, timerVars>>

\* LibraryView.refresh: PictureLibrary.load
LibraryView_refresh ==
    /\ lib_items' = PictureLibrary_load(lib_file, lib_items)
    /\ UNCHANGED <<lib_file, images, returned, removed, arasaacVars, envVars, tplVars, schedVars, nowVars,
                   timerVars, status>>

\* BildstodApp.refresh_data (F5): the status line, LibraryView.refresh and
\* ScheduleView.refresh, which rebuilds the rows of the timeline; when load
\* raises, the handler ends there
BildstodApp_refresh_data ==
    /\ status' = <<"Refreshing...", "">>
    /\ lib_items' = PictureLibrary_load(lib_file, lib_items)
    /\ UNCHANGED <<lib_file, images, returned, removed, arasaacVars, envVars, tplVars, schedVars,
                   nowVars, timerVars>>

\* what another program can leave at library.json while this one runs: no
\* file, a file cut short, a file saved in Latin-1 with a label such as
\* "Kl\u00e4 p\u00e5 sig", an empty list, the two pictures of DemoLibrary
ExternalFiles ==
    { [state |-> "missing", data |-> <<>>], [state |-> "corrupt", data |-> <<>>],
      [state |-> "undecodable", data |-> <<>>], [state |-> "ok", data |-> <<>>],
      [state |-> "ok", data |-> DemoLibrary] }

\* library.json is replaced from outside; the pictures it names are in place
LibraryFile_replaced ==
    \E file \in ExternalFiles :
        /\ lib_file' = file
        /\ images' = images \cup FileNames(file.data)
        /\ UNCHANGED <<lib_items, returned, removed, arasaacVars, envVars, tplVars, schedVars,
                       nowVars, timerVars, status>>

\* ------------------------------------------------------ ArasaacSearchView
\* most do_add threads and queued _finish_add calls at one time
MaxDownloads == 2

RECURSIVE SumOver(_, _)
SumOver(f, S) ==
    IF S = {} THEN 0 ELSE LET x == CHOOSE y \in S : TRUE IN f[x] + SumOver(f, S \ {x})

\* the do_add threads still downloading and the queued _finish_add calls
InFlight == SumOver(adds_running, Pictos) + Len(adds_idle)

\* ArasaacSearchView._on_add_clicked on the card of a pictogram: the thread
\* running do_add is started
ArasaacSearchView_on_add_clicked ==
    \E p \in Pictos :
        /\ InFlight < MaxDownloads
        /\ adds_running' = [adds_running EXCEPT ![p] = @ + 1]
        /\ UNCHANGED <<lib_items, lib_file, images, returned, removed, adds_idle, envVars, tplVars,
                       schedVars, nowVars, timerVars, status>>

\* do_add in its thread: download_image, then GLib.idle_add(_finish_add). The
\* cached file is used when there is one; otherwise the download succeeds,
\* fails before the file is created, or fails after it was created
ArasaacSearchView_do_add ==
    \E p \in Pictos :
        /\ adds_running[p] > 0
        /\ adds_running' = [adds_running EXCEPT ![p] = @ - 1]
        /\ IF ArasaacFile(p) \in images
           THEN /\ adds_idle' = Append(adds_idle, [picto_id |-> p, path |-> TRUE])
                /\ UNCHANGED images
           ELSE \E net \in {"ok", "fails", "fails_partial"} :
                /\ images' = IF net = "fails" THEN images ELSE images \cup {ArasaacFile(p)}
                /\ adds_idle' = Append(adds_idle, [picto_id |-> p, path |-> net = "ok"])
        /\ UNCHANGED <<lib_items, lib_file, returned, removed, envVars, tplVars, schedVars, nowVars,
                       timerVars, status>>

\* ArasaacSearchView._finish_add, the oldest queued call
ArasaacSearchView_finish_add ==
    /\ adds_idle # <<>>
    /\ adds_idle' = Tail(adds_idle)
    /\ LET picto_id == Head(adds_idle).picto_id
           item == [id |-> ArasaacId(picto_id), filename |-> ArasaacFile(picto_id),
                    label |-> "Pictogram", category |-> "other", duration |-> 0]
       IN  IF ~Head(adds_idle).path
           THEN UNCHANGED <<lib_items, lib_file, status>>
           ELSE IF get_by_id(lib_items, item["id"]) # 0
           THEN /\ status' = <<"Added", "Pictogram">>
                /\ UNCHANGED <<lib_items, lib_file>>
           ELSE \E io \in SaveOutcomes :
                /\ lib_items' = Append(lib_items, item)
                /\ lib_file' = PictureLibrary_save(lib_items', io)
                /\ status' = IF io = "ok" THEN <<"Added", "Pictogram">> ELSE status
    /\ UNCHANGED <<images, returned, removed, adds_running, envVars, tplVars, schedVars, nowVars,
                   timerVars>>

\* ----------------------------------------------------- Schedule persistence
\* str.replace(" ", "_").replace("/", "_")
SafeName(name) ==
    [i \in DOMAIN name |-> IF name[i] = " " \/ name[i] = "/" THEN "_" ELSE name[i]]

\* Schedule.save: the file name f"{date}_{safe_name}.json"
ScheduleFileName(sch) == [date |-> sch.date, safe_name |-> SafeName(sch.name)]

\* Schedule.to_dict
Schedule_to_dict(sch) ==
    [name |-> sch.name, date |-> sch.date,
     items |-> [i \in DOMAIN sch.items |-> item_to_dict(sch.items[i])]]

\* the i-th id uuid.uuid4() hands out during one from_dict
FreshUuid(i) ==
    CHOOSE u \in Uuids \ UsedUuids :
        Cardinality({v \in Uuids \ UsedUuids : v < u}) = i - 1

\* Schedule.from_dict
Schedule_from_dict(d) ==
    LET ds == Get(d, "items", <<>>)
    IN  [name |-> Get(d, "name", NewScheduleName),
         date |-> Get(d, "date", Today),
         items |-> [i \in DOMAIN ds |-> item_from_dict(FreshUuid(i), ds[i])]]

\* json.dump then json.load of a dict of strings, integers, booleans and lists
\* of such dicts gives an equal dict: a file holds the dict written to it
Schedule_save(sch) == [state |-> "ok", data |-> Schedule_to_dict(sch)]

\* Schedule.load of a file that parses
Schedule_load(file) == Schedule_from_dict(file.data)

\* a name that differs from the default one and is saved under the same file name
Names == { <<"N", "e", "w", "/", "S", "c", "h", "e", "d", "u", "l", "e">> }

\* ScheduleView._on_name_changed
ScheduleView_on_name_changed ==
    \E text \in Names :
        /\ schedule' = [schedule EXCEPT !.name = text]
        /\ UNCHANGED <<libVars, tplVars, sched_files, nowVars, timerVars, status>>

\* ScheduleView._on_save; the write succeeds, or fails leaving the file as it
\* was, or fails leaving a file that does not parse
ScheduleView_on_save ==
    \E io \in {"ok", "fails", "fails_partial"} :
        LET k == ScheduleFileName(schedule)
        IN  /\ CASE io = "ok" ->
                      /\ sched_files' = (k :> Schedule_save(schedule)) @@ sched_files
                      /\ status' = <<"Schedule saved", "">>
                 [] io = "fails" ->
                      /\ sched_files' = sched_files
                      /\ status' = <<"Error saving", "">>
                 [] io = "fails_partial" ->
                      /\ sched_files' = (k :> [state |-> "corrupt", data |-> <<>>]) @@ sched_files
                      /\ status' = <<"Error saving", "">>
            /\ UNCHANGED <<libVars, tplVars, schedule, nowVars, timerVars>>

\* the threads started for schedules the ScheduleView no longer holds keep
\* their item objects, which no view shows any more
Detached(threads) == [t \in DOMAIN threads |-> [threads[t] EXCEPT !.attached = FALSE]]

\* a JSON value that is not a number where the program expects one: the
\* string "ten" as the duration of an item in a hand-edited file
NotANumber == 0 - 1

\* _populate_timeline -> _make_timeline_row: _("%d minutes") % item.duration
\* raises TypeError when the duration is not a number
PopulateRaises(sch) == \E i \in DOMAIN sch.items : sch.items[i].duration = NotANumber

\* ScheduleView._on_load_done for a chosen file of the schedules directory:
\* Schedule.load raises for a file that is gone or does not parse; for a file
\* that parses, self.schedule is assigned before the timeline is populated, and
\* an error raised there is caught after the assignment and before
\* _notify_change
ScheduleView_on_load_done ==
    \E k \in DOMAIN sched_files :
        IF sched_files[k].state = "ok"
        THEN LET loaded == Schedule_load(sched_files[k])
             IN  /\ schedule' = loaded
                 /\ fetch_threads' = Detached(fetch_threads)
                 /\ IF PopulateRaises(loaded)
                    THEN /\ status' = <<"Error loading", "">>
                         /\ now_schedule' = IF now_schedule = "None" THEN "None" ELSE "stale"
                         /\ UNCHANGED <<current_item, done_btn_sensitive, timerVars>>
                    ELSE /\ NowView_update_schedule(loaded.items)
                         /\ status' = <<"Schedule loaded", "">>
                 /\ UNCHANGED <<libVars, tpl_files, sched_files>>
        ELSE /\ status' = <<"Error loading", "">>
             /\ UNCHANGED <<libVars, tplVars, schedVars, nowVars, timerVars>>

\* ---------------------------------------------------------------- templates
\* one entry of a built-in template's "items" list
Descr(label, time_str, duration, category, arasaac_id) ==
    [label |-> label, time_str |-> time_str, duration |-> duration,
     category |-> category, arasaac_id |-> arasaac_id]

\* get_builtin_templates()
get_builtin_templates ==
    <<
      [name |-> <<"S", "c", "h", "o", "o", "l", " ", "D", "a", "y">>,
       items |-> <<
           Descr("Wake up", "06:30", 15, "morning", 8988),
           Descr("Breakfast", "06:45", 20, "meals", 4625),
           Descr("Get dressed", "07:05", 15, "morning", 2781),
           Descr("Brush teeth", "07:20", 10, "hygiene", 2326),
           Descr("Go to school", "07:30", 30, "transport", 3082),
           Descr("School", "08:00", 360, "school", 3082),
           Descr("Lunch", "11:30", 30, "meals", 4609),
           Descr("Come home", "14:00", 30, "transport", 6964),
           Descr("Snack", "14:30", 15, "meals", 4694),
           Descr("Play", "14:45", 60, "play", 11653),
           Descr("Dinner", "17:30", 30, "meals", 4592),
           Descr("Evening routine", "19:00", 30, "evening", 6942),
           Descr("Brush teeth", "19:30", 10, "hygiene", 2326),
           Descr("Bedtime", "19:45", 15, "evening", 6027) >>],
      [name |-> <<"W", "e", "e", "k", "e", "n", "d">>,
       items |-> <<
           Descr("Wake up", "08:00", 15, "morning", 8988),
           Descr("Breakfast", "08:15", 30, "meals", 4625),
           Descr("Get dressed", "08:45", 15, "morning", 2781),
           Descr("Play", "09:00", 120, "play", 11653),
           Descr("Lunch", "12:00", 30, "meals", 4609),
           Descr("Rest", "12:30", 60, "rest", 3299),
           Descr("Play", "14:00", 120, "play", 11653),
           Descr("Snack", "16:00", 15, "meals", 4694),
           Descr("Dinner", "17:30", 30, "meals", 4592),
           Descr("Evening routine", "19:00", 30, "evening", 6942),
           Descr("Bedtime", "20:00", 15, "evening", 6027) >>],
      [name |-> <<"H", "o", "l", "i", "d", "a", "y">>,
       items |-> <<
           Descr("Wake up", "08:30", 15, "morning", 8988),
           Descr("Breakfast", "08:45", 30, "meals", 4625),
           Descr("Get dressed", "09:15", 15, "morning", 2781),
           Descr("Play", "09:30", 120, "play", 11653),
           Descr("Lunch", "12:00", 30, "meals", 4609),
           Descr("Rest", "12:30", 60, "rest", 3299),
           Descr("Play", "14:00", 180, "play", 11653),
           Descr("Dinner", "17:30", 30, "meals", 4592),
           Descr("Evening routine", "19:30", 30, "evening", 6942),
           Descr("Bedtime", "20:30", 15, "evening", 6027) >>] >>

\* Schedule.__init__: name or _("New Schedule")
Schedule_init(name) ==
    [name |-> IF name = <<>> THEN NewScheduleName ELSE name, date |-> Today, items |-> <<>>]

\* the uuid4 values ScheduleItem.__init__ draws while a template is expanded:
\* two blocks of ids, each as long as the longest built-in template
TemplateBlock == Len(get_builtin_templates[1]["items"])
TemplateUuids == (MaxUuid + 1)..(MaxUuid + 2 * TemplateBlock)

\* the i-th id drawn during one expansion, an id that no item of the program
\* holds: the items of the timeline that came from a template hold ids of one
\* block, and the expansion draws from the other
TemplateUuid(i) ==
    IF \A u \in ItemIds(schedule.items) : u <= MaxUuid \/ u > MaxUuid + TemplateBlock
    THEN MaxUuid + i
    ELSE MaxUuid + TemplateBlock + i

template_item_mut_keep_done(uid, item_data, cached) ==
    LET arasaac_id == Get(item_data, "arasaac_id", 0)
    IN  ScheduleItem(uid, NoId, item_data["label"],
            IF arasaac_id # 0 /\ ArasaacFile(arasaac_id) \in cached
            THEN ArasaacFile(arasaac_id) ELSE NoFile,
            item_data["time_str"], item_data["duration"],
            Get(item_data, "done", FALSE), Get(item_data, "category", "other"))

template_item_mut_keep_id(uid, item_data, cached) ==
    LET arasaac_id == Get(item_data, "arasaac_id", 0)
    IN  ScheduleItem(Get(item_data, "id", uid), NoId, item_data["label"],
            IF arasaac_id # 0 /\ ArasaacFile(arasaac_id) \in cached
            THEN ArasaacFile(arasaac_id) ELSE NoFile,
            item_data["time_str"], item_data["duration"], FALSE,
            Get(item_data, "category", "other"))

\* template_to_schedule, one round of its loop: the item built from item_data
\* when the images directory holds the files cached
template_item(uid, item_data, cached) ==
    LET arasaac_id == Get(item_data, "arasaac_id", 0)
    IN  ScheduleItem(uid, NoId, item_data["label"],
            IF arasaac_id # 0 /\ ArasaacFile(arasaac_id) \in cached
            THEN ArasaacFile(arasaac_id) ELSE NoFile,
            item_data["time_str"], item_data["duration"], FALSE,
            Get(item_data, "category", "other"))

\* template_to_schedule: the schedule returned and the items_needing_images the
\* thread is started with, as <<item id, pictogram id>> pairs
template_to_schedule(template_data, cached) ==
    LET descr == template_data["items"]
        arasaac_id(i) == Get(descr[i], "arasaac_id", 0)
    IN  [schedule |->
            [Schedule_init(template_data["name"]) EXCEPT
                !.items = [i \in DOMAIN descr |->
                              template_item(TemplateUuid(i), descr[i], cached)]],
         items_needing_images |->
            SelectSeq([i \in DOMAIN descr |-> <<TemplateUuid(i), arasaac_id(i)>>],
                      LAMBDA q : q[2] # 0 /\ ArasaacFile(q[2]) \notin cached)]

\* save_as_template: the file name f"{safe_name}.json"
TemplateFileName(tpl) == SafeName(tpl["name"])

\* list_user_templates: the dicts of the files that parse
list_user_templates == {tpl_files[k].data : k \in {f \in DOMAIN tpl_files : tpl_files[f].state = "ok"}}

\* the rows of the template dialog the user picks from
ShownTemplates == {get_builtin_templates[2]} \cup list_user_templates

\* MainWindow._on_template_response, response "load"; a template that needs
\* pictures is picked when no earlier thread is still fetching
MainWindow_on_template_load ==
    \E template \in ShownTemplates :
        LET built == template_to_schedule(template, images)
            queue == built.items_needing_images
        IN  /\ queue # <<>> => fetch_threads = <<>>
            /\ schedule' = built.schedule
            /\ fetch_threads' =
                   IF queue = <<>> THEN Detached(fetch_threads)
                   ELSE Append(Detached(fetch_threads), [attached |-> TRUE, queue |-> queue])
            /\ NowView_update_schedule(built.schedule.items)
            /\ status' = <<"Template loaded", "">>
            /\ UNCHANGED <<libVars, sched_files, tpl_files>>

\* MainWindow._on_template_response, response "save"
MainWindow_on_template_save ==
    \E io \in SaveOutcomes :
        LET tpl == Schedule_to_dict(schedule)
            k == TemplateFileName(tpl)
        IN  /\ CASE io = "ok" ->
                      /\ tpl_files' = (k :> [state |-> "ok", data |-> tpl]) @@ tpl_files
                      /\ status' = <<"Template saved", "">>
                 [] io = "fails" ->
                      UNCHANGED <<tpl_files, status>>
                 [] io = "fails_partial" ->
                      /\ tpl_files' = (k :> [state |-> "corrupt", data |-> <<>>]) @@ tpl_files
                      /\ UNCHANGED status
            /\ UNCHANGED <<libVars, schedule, sched_files, fetch_threads, nowVars, timerVars>>

\* the ways one download can end: the file is written; the request fails before
\* the file is opened; the read or the write fails after the file was created
FetchOutcomes == {"ok", "fails", "fails_partial"}

SetImage_mut_done(items, id, fname) ==
    [i \in DOMAIN items |->
        IF items[i].id = id
        THEN [items[i] EXCEPT !.image_filename = fname, !.done = TRUE] ELSE items[i]]

\* sched_item.image_filename = fname on the item object the thread holds
SetImage(items, id, fname) ==
    [i \in DOMAIN items |->
        IF items[i].id = id THEN [items[i] EXCEPT !.image_filename = fname] ELSE items[i]]

ensure_arasaac_image_mut_always(net, dest) == dest

\* _ensure_arasaac_image: the file name returned, "" after a failure
ensure_arasaac_image(net, dest) == IF net \in {"cached", "ok"} THEN dest ELSE NoFile

\* _fetch_images: one round of the loop of one running thread, with the call
\* of _ensure_arasaac_image in it
fetch_images_step ==
    \E t \in DOMAIN fetch_threads :
        LET thread == fetch_threads[t]
            sched_item == Head(thread.queue)[1]
            picto_id == Head(thread.queue)[2]
            dest == ArasaacFile(picto_id)
            rest == [thread EXCEPT !.queue = Tail(thread.queue)]
        IN  /\ \E net \in (IF dest \in images THEN {"cached"} ELSE FetchOutcomes) :
                /\ images' = IF net \in {"ok", "fails_partial"}
                             THEN images \cup {dest} ELSE images
                /\ LET fname == ensure_arasaac_image(net, dest)
                   IN  schedule' =
                           IF fname # NoFile /\ thread.attached
                           THEN [schedule EXCEPT
                                    !.items = SetImage(schedule.items, sched_item, fname)]
                           ELSE schedule
            /\ fetch_threads' =
                   IF rest.queue = <<>>
                   THEN SubSeq(fetch_threads, 1, t - 1)
                            \o SubSeq(fetch_threads, t + 1, Len(fetch_threads))
                   ELSE [fetch_threads EXCEPT ![t] = rest]
            /\ UNCHANGED <<lib_items, lib_file, returned, removed, arasaacVars, envVars,
                           sched_files, tpl_files, nowVars, timerVars, status>>

\* -------------------------------------------------------- specifications
\* progression: pictures are dropped onto the schedule, activities are done or
\* skipped, the countdown is paused and resumed, and the main loop fires the
\* ticks; over a library of one picture
Next ==
    \/ ScheduleView_on_drop
    \/ NowView_on_done_clicked
    \/ Timer_on_skip_clicked
    \/ Timer_on_pause
    \/ \E s \in sources : Timer_tick(s)

Spec == Init /\ [][Next]_vars

\* editing: every handler that changes the schedule, and Done and Skip, without
\* the passage of time; over a library of one picture
NextEdit ==
    \/ ScheduleView_on_drop
    \/ ScheduleView_on_add_dialog_response
    \/ MainWindow_on_library_item_activated
    \/ ScheduleView_on_remove_item
    \/ ScheduleView_on_done_toggled
    \/ ScheduleView_on_time_changed
    \/ NowView_on_done_clicked
    \/ Timer_on_skip_clicked

SpecEdit == InitEdit /\ [][NextEdit]_vars

\* adding from the library: the three handlers that build a ScheduleItem from a
\* library item, and removal; over the libraries of InitialLibraries
NextAdd ==
    \/ ScheduleView_on_drop
    \/ ScheduleView_on_add_dialog_response
    \/ MainWindow_on_library_item_activated
    \/ ScheduleView_on_remove_item

SpecAdd == InitLibrary /\ [][NextAdd]_vars

\* the library: pictures are imported and removed and the library is reloaded
NextLibrary ==
    \/ LibraryView_on_add_response
    \/ LibraryView_on_remove_clicked
    \/ PictureLibrary_remove_image_call
    \/ LibraryView_refresh

SpecLibrary == InitEdit /\ [][NextLibrary]_vars

\* the pictogram search: pictograms are downloaded and added while pictures are
\* imported and removed
NextArasaac ==
    \/ ArasaacSearchView_on_add_clicked
    \/ ArasaacSearchView_do_add
    \/ ArasaacSearchView_finish_add
    \/ LibraryView_on_add_response
    \/ LibraryView_on_remove_clicked

SpecArasaac == InitArasaac /\ [][NextArasaac]_vars

\* the pictograms of the built-in templates that the start-up prefetch did not
\* get: Breakfast and Get dressed
UncachedPictos == {4625, 2781}

TemplatePictos ==
    UNION {{get_builtin_templates[t]["items"][i]["arasaac_id"] :
               i \in DOMAIN get_builtin_templates[t]["items"]} :
           t \in DOMAIN get_builtin_templates}

\* a full timeline of an earlier run whose name entry was cleared and whose
\* first activity was done
SavedTimeline ==
    [name |-> <<>>, date |-> Today,
     items |-> [i \in 1..MaxItems |->
                   [from_library_item(i + 1, TimerLibrary[1]) EXCEPT !.done = (i = 1)]]]

\* the templates directory after "Save Current as Template" on that timeline
SavedTemplates ==
    LET tpl == Schedule_to_dict(SavedTimeline)
    IN  TemplateFileName(tpl) :> [state |-> "ok", data |-> tpl]

\* the schedules directory after "Save" on that timeline
SavedSchedules == ScheduleFileName(SavedTimeline) :> Schedule_save(SavedTimeline)

InitTemplate ==
    InitFull(TimerLibrary, FALSE,
             {ArasaacFile(p) : p \in TemplatePictos \ UncachedPictos}, SavedTemplates, <<>>)

\* every pictogram of the built-in templates is in the images directory
InitViews ==
    InitFull(TimerLibrary, FALSE,
             {ArasaacFile(p) : p \in TemplatePictos}, SavedTemplates, SavedSchedules)

\* the two views: every handler that changes the timeline or replaces it by a
\* saved schedule or a template, and Done and Skip
NextViews ==
    \/ ScheduleView_on_drop
    \/ ScheduleView_on_add_dialog_response
    \/ MainWindow_on_library_item_activated
    \/ ScheduleView_on_remove_item
    \/ ScheduleView_on_done_toggled
    \/ ScheduleView_on_load_done
    \/ MainWindow_on_template_load
    \/ NowView_on_done_clicked
    \/ Timer_on_skip_clicked

SpecViews == InitViews /\ [][NextViews]_vars

\* templates: a template is expanded and its pictures are fetched in the
\* background while the timeline is edited and activities are done or skipped
NextTemplate ==
    \/ MainWindow_on_template_load
    \/ fetch_images_step
    \/ ScheduleView_on_drop
    \/ ScheduleView_on_remove_item
    \/ ScheduleView_on_done_toggled
    \/ NowView_on_done_clicked
    \/ Timer_on_skip_clicked

SpecTemplate == InitTemplate /\ [][NextTemplate]_vars

\* the schedules directory of a later run: the saved timeline, a copy of it in
\* which a text editor put "ten" for the first duration, a file cut short by a
\* failed write, and a file deleted after the dialog listed it
LoadFiles ==
    LET edited == [SavedTimeline EXCEPT !.name = <<"e">>, !.items[1].duration = NotANumber]
        cut == [date |-> Today, safe_name |-> <<"c">>]
        gone == [date |-> Today, safe_name |-> <<"g">>]
    IN  SavedSchedules
            @@ (ScheduleFileName(edited) :> Schedule_save(edited))
            @@ (cut :> [state |-> "corrupt", data |-> <<>>])
            @@ (gone :> [state |-> "missing", data |-> <<>>])

InitLoad == InitFull(TimerLibrary, FALSE, {}, <<>>, LoadFiles)

\* loading: files are loaded, and the timeline's name and times are edited
NextLoad ==
    \/ ScheduleView_on_load_done
    \/ ScheduleView_on_name_changed
    \/ ScheduleView_on_time_changed

SpecLoad == InitLoad /\ [][NextLoad]_vars

\* user templates: the timeline is edited and renamed, and saved as a template
NextSnapshot ==
    \/ ScheduleView_on_drop
    \/ ScheduleView_on_remove_item
    \/ ScheduleView_on_done_toggled
    \/ ScheduleView_on_time_changed
    \/ ScheduleView_on_name_changed
    \/ MainWindow_on_template_save

\* the images directory also holds pictures whose library entry was never
\* written (add_image copies before it saves), so two unused ids remain
OrphanImages == {[stem |-> u, ext |-> png] : u \in 4..MaxUuid}

InitSnapshot == InitFull(TimerLibrary, TRUE, OrphanImages, <<>>, <<>>)

SpecSnapshot == InitSnapshot /\ [][NextSnapshot]_vars

\* reloading: library.json changes under the running program, which reloads
\* it, imports and removes
NextReload ==
    \/ LibraryFile_replaced
    \/ BildstodApp_refresh_data
    \/ LibraryView_on_add_response
    \/ LibraryView_on_remove_clicked

SpecReload == InitArasaac /\ [][NextReload]_vars

\* persistence: a schedule is built, renamed, saved and loaded
NextPersist ==
    \/ ScheduleView_on_drop
    \/ NowView_on_done_clicked
    \/ ScheduleView_on_time_changed
    \/ ScheduleView_on_name_changed
    \/ ScheduleView_on_save
    \/ ScheduleView_on_load_done

SpecPersist == InitEdit /\ [][NextPersist]_vars

\* ------------------------------------------------------------------ claims
Pending(items) == {i \in DOMAIN items : ~items[i].done}
MinOf(S) == CHOOSE i \in S : \A j \in S : i <= j
PositionsOf(items, id) == {i \in DOMAIN items : items[i].id = id}

\* C1: get_current_activity returns the pending item of smallest index, returns
\* None exactly when the list is empty or every item is done, and its result is
\* the same whatever time_str any item holds
C1_CurrentIsFirstPending ==
    LET items == schedule.items
        r == get_current_activity(items)
    IN  /\ (r = 0) <=> (items = <<>> \/ \A i \in DOMAIN items : items[i].done)
        /\ r # 0 => (r \in Pending(items) /\ \A j \in Pending(items) : r <= j)
        /\ \A i \in DOMAIN items, t \in TimeTexts \cup {"23:59", ""} :
               get_current_activity([items EXCEPT ![i].time_str = t]) = r

\* a done item precedes two pending ones, the first pending one carrying the
\* later time
C1_Witness ==
    /\ Len(schedule.items) = 3
    /\ schedule.items[1].done /\ ~schedule.items[2].done /\ ~schedule.items[3].done
    /\ schedule.items[2].time_str = "09:30" /\ schedule.items[3].time_str = "08:00"
    /\ get_current_activity(schedule.items) = 2

\* C2: with unique ids, get_next_activity(c) is the first pending item after c's
\* position, None when no later item is pending and None when no item has c's id
C2_NextIsFirstPendingAfter ==
    LET items == schedule.items
    IN  (\A i, j \in DOMAIN items : items[i].id = items[j].id => i = j) =>
        \A c \in Uuids :
            LET r == get_next_activity(items, c)
                later == {j \in Pending(items) : \E p \in PositionsOf(items, c) : j > p}
            IN  /\ PositionsOf(items, c) = {} => r = 0
                /\ later = {} => r = 0
                /\ later # {} => r = MinOf(later)

\* [A pending, B pending, C done]: the current activity is A and
\* get_next_activity(B) is None
C2_Witness ==
    /\ Len(schedule.items) = 3
    /\ ~schedule.items[1].done /\ ~schedule.items[2].done /\ schedule.items[3].done
    /\ get_current_activity(schedule.items) = 1
    /\ get_next_activity(schedule.items, schedule.items[2].id) = 0
    /\ get_next_activity(schedule.items, schedule.items[1].id) = 2

DoneFlags(items) == [i \in DOMAIN items |-> items[i].done]

\* C3: a Done or Skip step with a current item c sets c.done, changes no other
\* done flag and leaves current_item = get_current_activity() of the schedule
\* as mutated; with no current item it changes no done flag and no current item
C3_DoneSkipAdvance ==
    [][(NowView_on_done_clicked \/ Timer_on_skip_clicked) =>
        IF current_item # None
        THEN /\ Len(schedule'.items) = Len(schedule.items)
             /\ \A i \in DOMAIN schedule.items :
                    /\ schedule'.items[i].id = schedule.items[i].id
                    /\ schedule'.items[i].done =
                           (schedule.items[i].id = current_item \/ schedule.items[i].done)
             /\ current_item' =
                    ItemRef(schedule'.items, get_current_activity(schedule'.items))
        ELSE /\ DoneFlags(schedule'.items) = DoneFlags(schedule.items)
             /\ current_item' = current_item]_vars

\* Done or Skip has moved the NowView from a first activity to the second
C3_Witness ==
    /\ status[1] = "Completed"
    /\ Len(schedule.items) = 3
    /\ schedule.items[1].done /\ ~schedule.items[2].done /\ ~schedule.items[3].done
    /\ current_item = schedule.items[2].id

\* a step of the main loop firing a tick
TickStep == \E s \in sources : Timer_tick(s)

\* a step of a handler that ends in NowView._update_display
DisplayStep ==
    \/ ScheduleView_on_drop
    \/ NowView_on_done_clicked
    \/ Timer_on_skip_clicked

\* C4 (as claimed): the finished callback is raised once per start() when the
\* countdown reaches zero and never otherwise, so no finished notification is
\* raised that no start() accounts for
C4_FinishedOncePerStart == finish_state # "extra"

\* C5 (as claimed): at most one one-second tick source is live for the timer
C5_AtMostOneTickSource == Cardinality(sources) <= 1

\* C6: a handler that displays a current item of duration m leaves total =
\* remaining = 60*m and running; one that displays none leaves both as they
\* were; pause and resume leave both unchanged; a tick changes remaining only
\* while running and then by -1, never total; and 0 <= remaining <= total after
\* every step
C6_CountdownArithmetic ==
    [][/\ DisplayStep =>
            IF current_item' # None
            THEN LET m == ItemById(schedule'.items, current_item').duration
                 IN  /\ total_seconds' = 60 * m
                     /\ remaining_seconds' = 60 * m
                     /\ running'
            ELSE /\ ~running'
                 /\ UNCHANGED <<total_seconds, remaining_seconds>>
       /\ Timer_on_pause => UNCHANGED <<total_seconds, remaining_seconds>>
       /\ TickStep =>
            /\ total_seconds' = total_seconds
            /\ ~running => remaining_seconds' = remaining_seconds
            /\ remaining_seconds' # remaining_seconds =>
                   (running /\ remaining_seconds' = remaining_seconds - 1)
       /\ (remaining_seconds' # remaining_seconds \/ total_seconds' # total_seconds)
              => (DisplayStep \/ TickStep)
       /\ 0 <= remaining_seconds' /\ remaining_seconds' <= total_seconds'
      ]_vars

\* the countdown was paused part of the way down
C6_Witness ==
    /\ ~running /\ finish_state = "armed"
    /\ remaining_seconds = total_seconds - 2
    /\ total_seconds = 60
    /\ sources = {}

\* C7: a tick, the expiring one included, changes no item, not the current item
\* and not the schedule the NowView shows; the current item changes only in a
\* Done, Skip or schedule-changing handler
C7_ExpiryOnlyNotifies ==
    [][/\ TickStep => UNCHANGED <<schedule, current_item, now_schedule, done_btn_sensitive>>
       /\ current_item' # current_item => DisplayStep
      ]_vars

\* the countdown of the current activity has expired and it is still current
C7_Witness ==
    /\ finish_state = "raised" /\ remaining_seconds = 0 /\ ~running
    /\ status[1] = "Time's up for"
    /\ current_item # None
    /\ ~ItemById(schedule.items, current_item).done
    /\ Len(schedule.items) >= 2

\* the step of one of the three handlers that add a library item to the schedule
AddStep ==
    \/ ScheduleView_on_drop
    \/ ScheduleView_on_add_dialog_response
    \/ MainWindow_on_library_item_activated

\* item it carries library item L's id, label, file name and category, is not
\* done, and has an id that is not L's and that no item of the schedule had
CopiesLibraryItem(it, L) ==
    /\ it.library_id = L["id"]
    /\ it.label = L["label"]
    /\ it.image_filename = L["filename"]
    /\ "category" \in DOMAIN L => it.category = L["category"]
    /\ ~it.done
    /\ it.id # L["id"]
    /\ it.id \notin ItemIds(schedule.items)

\* C8: for every schedule the handlers reach, and for it with the name entry
\* emptied, loading what save wrote gives the same name and date and the same
\* items in the same order, each with the same id, library_id, label,
\* image_filename, time_str, duration, done and category; and loading the file a
\* successful save handler wrote gives the schedule that was saved
C8_RoundTrip ==
    /\ [](\A S \in {schedule, [schedule EXCEPT !.name = <<>>]} :
            LET R == Schedule_load(Schedule_save(S))
            IN  /\ R.name = S.name
                /\ R.date = S.date
                /\ Len(R.items) = Len(S.items)
                /\ \A i \in DOMAIN S.items :
                       /\ R.items[i].id = S.items[i].id
                       /\ R.items[i].library_id = S.items[i].library_id
                       /\ R.items[i].label = S.items[i].label
                       /\ R.items[i].image_filename = S.items[i].image_filename
                       /\ R.items[i].time_str = S.items[i].time_str
                       /\ R.items[i].duration = S.items[i].duration
                       /\ R.items[i].done = S.items[i].done
                       /\ R.items[i].category = S.items[i].category)
    /\ [][(ScheduleView_on_save /\ status'[1] = "Schedule saved") =>
              Schedule_load(sched_files'[ScheduleFileName(schedule)]) = schedule]_vars

\* a renamed schedule with a done item and a changed time was saved and loaded
C8_Witness ==
    /\ status[1] = "Schedule loaded"
    /\ schedule.name \in Names
    /\ Len(schedule.items) = MaxItems
    /\ schedule.items[1].done
    /\ ~schedule.items[2].done
    /\ schedule.items[2].time_str = "09:30"
    /\ sched_files[ScheduleFileName(schedule)] = Schedule_save(schedule)

\* C9 (as claimed): an item built from library item L copies L's fields and has
\* L's duration, whatever that duration is
C9_DurationIsLibraryDuration ==
    [][AddStep =>
          \E j \in DOMAIN lib_items :
              LET it == schedule'.items[Len(schedule'.items)]
                  L == lib_items[j]
              IN  /\ CopiesLibraryItem(it, L)
                  /\ "duration" \in DOMAIN L => it.duration = L["duration"]
      ]_vars

\* C9 (amended): an item built from library item L copies L's fields, has
\* category "other" when L has none, and has L's duration when that is not 0
\* and 30 minutes when it is 0 or L has none
C9_DurationOrThirty ==
    [][AddStep =>
          /\ Len(schedule'.items) = Len(schedule.items) + 1
          /\ \E j \in DOMAIN lib_items :
              LET it == schedule'.items[Len(schedule'.items)]
                  L == lib_items[j]
              IN  /\ CopiesLibraryItem(it, L)
                  /\ it.category = IF "category" \in DOMAIN L THEN L["category"] ELSE "other"
                  /\ it.duration = IF "duration" \in DOMAIN L /\ L["duration"] # 0
                                   THEN L["duration"] ELSE 30
      ]_vars

\* the schedule holds an item built from a library item of duration 20 and one
\* built from a library item of duration 0
C9_Witness ==
    \E a, b \in DOMAIN schedule.items, j, k \in DOMAIN lib_items :
        /\ schedule.items[a].library_id = lib_items[j]["id"]
        /\ "duration" \in DOMAIN lib_items[j] /\ lib_items[j]["duration"] = 20
        /\ schedule.items[a].duration = 20
        /\ schedule.items[b].library_id = lib_items[k]["id"]
        /\ "duration" \in DOMAIN lib_items[k] /\ lib_items[k]["duration"] = 0
        /\ schedule.items[b].duration = 30

\* C10: add_image of a file whose extension is none of png, jpg, jpeg, svg in
\* any letter case returns None and leaves the library list, library.json and
\* the images directory as they were: a step either does that, or is not an
\* add_image of such a file
C10_BadExtensionRejected ==
    [][\/ /\ returned' = "None"
          /\ UNCHANGED <<lib_items, lib_file, images>>
       \/ \A uid \in NewUuids, name \in BadSources :
             ~PictureLibrary_add_image(name, "Lunch", "meals", 0, uid)
      ]_vars

\* an import was rejected after one had succeeded, and the library is the
\* imported picture as it was
C10_Witness ==
    /\ returned = "None"
    /\ Len(lib_items) = 1
    /\ lib_items[1]["label"] = "Lunch"
    /\ lib_file = [state |-> "ok", data |-> lib_items]
    /\ images = FileNames(lib_items)

\* C11: remove_image of an id that no library item has ends without an error
\* and leaves the library list, library.json and the images directory as they
\* were
C11_RemoveAbsentIsNoOp ==
    [][\A item_id \in Uuids \ LibIds(lib_items) :
          PictureLibrary_remove_image(item_id)
              => /\ removed' = "absent"
                 /\ UNCHANGED <<lib_items, lib_file, images>>
      ]_vars

\* remove_image found no item with the id while the library held a picture
C11_Witness ==
    /\ removed = "absent"
    /\ Len(lib_items) = 1
    /\ images # {}
    /\ lib_file.state = "ok"

\* C12: no two items of the in-memory library share an id, whatever the order
\* in which imports, removals, downloads and _finish_add calls happen, and an
\* add_image that returns an item has appended that one item, with an id no
\* item had, at the end of the list
C12_LibraryIdsUnique ==
    /\ [](\A i, j \in DOMAIN lib_items : i # j => lib_items[i]["id"] # lib_items[j]["id"])
    /\ [][(returned' = "item" /\ UNCHANGED <<removed, arasaacVars>> /\ LibraryView_on_add_response) =>
              /\ Len(lib_items') = Len(lib_items) + 1
              /\ SubSeq(lib_items', 1, Len(lib_items)) = lib_items
              /\ lib_items'[Len(lib_items')]["id"] \notin LibIds(lib_items)]_vars

\* an imported picture and a pictogram are in the library and a second
\* download of that pictogram has finished and waits for its _finish_add
C12_Witness ==
    /\ returned = "item"
    /\ \E i \in DOMAIN lib_items : lib_items[i]["id"] \in Uuids /\ lib_items[i]["label"] = "Lunch"
    /\ \E k \in DOMAIN adds_idle :
          /\ adds_idle[k].path
          /\ ArasaacId(adds_idle[k].picto_id) \in LibIds(lib_items)

IdsOf(items) == [i \in DOMAIN items |-> items[i].id]
WithoutRow(seq, i) == SubSeq(seq, 1, i - 1) \o SubSeq(seq, i + 1, Len(seq))
TemplateLoadStep ==
    /\ status' = <<"Template loaded", "">>
    /\ \A i \in DOMAIN schedule'.items : schedule'.items[i].id = TemplateUuid(i)
    /\ MainWindow_on_template_load

FileLoadStep == status' = <<"Schedule loaded", "">> /\ ScheduleView_on_load_done

\* C13: the ids of the timeline's items are pairwise different whatever was
\* added from the library, expanded from a template or removed; expanding a
\* template gives every item an id that no item held, and every other handler
\* but the load of a saved schedule leaves the sequence of ids as it was, or
\* appends one id that no item held, or takes one id out
C13_ScheduleIdsUnique ==
    /\ [](\A i, j \in DOMAIN schedule.items :
              i # j => schedule.items[i].id # schedule.items[j].id)
    /\ [][LET a == IdsOf(schedule.items)
              b == IdsOf(schedule'.items)
          IN  IF TemplateLoadStep
              THEN ItemIds(schedule'.items) \cap ItemIds(schedule.items) = {}
              ELSE \/ b = a
                   \/ /\ Len(b) = Len(a) + 1
                      /\ SubSeq(b, 1, Len(a)) = a
                      /\ b[Len(b)] \notin ItemIds(schedule.items)
                   \/ \E i \in DOMAIN a : b = WithoutRow(a, i)
                   \/ FileLoadStep]_vars

\* a Weekend timeline that lost rows and got a picture from the library
C13_Witness ==
    /\ schedule.name = get_builtin_templates[2]["name"]
    /\ Len(schedule.items) < Len(get_builtin_templates[2]["items"])
    /\ \E i, j \in DOMAIN schedule.items :
          /\ schedule.items[i].id \in Uuids
          /\ schedule.items[j].id \in TemplateUuids

AllTemplates ==
    {get_builtin_templates[t] : t \in DOMAIN get_builtin_templates} \cup list_user_templates

\* sch holds one item per entry of the template, in order, with the entry's
\* label, time_str, duration and category, not done, under ids that differ from
\* one another and from the ids of held
ExpandsItems(template, sch, held) ==
    LET descr == template["items"]
    IN  /\ Len(sch.items) = Len(descr)
        /\ \A i \in DOMAIN descr :
              /\ sch.items[i].label = descr[i]["label"]
              /\ sch.items[i].time_str = descr[i]["time_str"]
              /\ sch.items[i].duration = descr[i]["duration"]
              /\ sch.items[i].category = descr[i]["category"]
              /\ sch.items[i].done = FALSE
              /\ sch.items[i].id \notin ItemIds(held)
        /\ Cardinality(ItemIds(sch.items)) = Len(sch.items)

NamedAfter(template, sch) == sch.name = template["name"]

NamedAfterOrDefault(template, sch) ==
    sch.name = IF template["name"] = <<>> THEN NewScheduleName ELSE template["name"]

\* C14 as stated: template_to_schedule(T) returns a schedule that has T's name
\* and one item per entry of T, in order, with the entry's label, time_str,
\* duration and category, done = false and a new id; Weekend gives 11 items; and
\* the timeline after "Load Selected" is such a schedule
C14_TemplateNamed ==
    /\ [](\A template \in AllTemplates :
              LET sch == template_to_schedule(template, images).schedule
              IN  NamedAfter(template, sch) /\ ExpandsItems(template, sch, schedule.items))
    /\ [][TemplateLoadStep =>
              \E template \in ShownTemplates :
                  NamedAfter(template, schedule') /\ ExpandsItems(template, schedule', schedule.items)]_vars

\* C14, amended: as above, but the schedule has the name "New Schedule" when
\* T's name is empty; Weekend gives 11 items, none of them done
C14_TemplateNamedOrDefault ==
    /\ [](/\ \A template \in AllTemplates :
                LET sch == template_to_schedule(template, images).schedule
                IN  /\ NamedAfterOrDefault(template, sch)
                    /\ ExpandsItems(template, sch, schedule.items)
            /\ LET weekend == template_to_schedule(get_builtin_templates[2], images).schedule
               IN  /\ Len(weekend.items) = 11
                   /\ \A i \in DOMAIN weekend.items : ~weekend.items[i].done)
    /\ [][TemplateLoadStep =>
              \E template \in ShownTemplates :
                  /\ NamedAfterOrDefault(template, schedule')
                  /\ ExpandsItems(template, schedule', schedule.items)]_vars

\* the template saved without a name and with a done activity was loaded over
\* a timeline that held template items
C14_Witness ==
    /\ status = <<"Template loaded", "">>
    /\ schedule.name = NewScheduleName
    /\ Len(schedule.items) = MaxItems
    /\ \A i \in DOMAIN schedule.items :
          /\ ~schedule.items[i].done
          /\ schedule.items[i].id > MaxUuid + TemplateBlock

\* a step of a _fetch_images thread
FetchStep ==
    /\ fetch_threads' # fetch_threads
    /\ UNCHANGED <<status, nowVars, timerVars>>
    /\ fetch_images_step

\* the ids of the items some running thread of the shown timeline still holds
QueuedIds ==
    UNION {{fetch_threads[t].queue[k][1] : k \in DOMAIN fetch_threads[t].queue} :
           t \in {u \in DOMAIN fetch_threads : fetch_threads[u].attached}}

\* C15: a step of a background fetch, wherever it falls between the handlers
\* of the user interface, leaves the timeline's name, date, length and order,
\* changes no field of any item but the image_filename of items it had queued,
\* and leaves get_current_activity and NowView's current item as they were
C15_FetchWritesOnlyImage ==
    [][FetchStep =>
          /\ schedule'.name = schedule.name
          /\ schedule'.date = schedule.date
          /\ Len(schedule'.items) = Len(schedule.items)
          /\ \A i \in DOMAIN schedule.items :
                /\ [schedule'.items[i] EXCEPT !.image_filename = schedule.items[i].image_filename]
                       = schedule.items[i]
                /\ schedule'.items[i] # schedule.items[i] => schedule.items[i].id \in QueuedIds
          /\ get_current_activity(schedule'.items) = get_current_activity(schedule.items)
          /\ current_item' = current_item
      ]_vars

\* the fetch wrote Breakfast's picture after Wake up was done, and Get dressed
\* is still to be fetched
C15_Witness ==
    /\ Len(schedule.items) = Len(get_builtin_templates[2]["items"])
    /\ schedule.items[1].done
    /\ schedule.items[2].image_filename = ArasaacFile(4625)
    /\ schedule.items[3].image_filename = NoFile
    /\ Len(fetch_threads) = 1 /\ fetch_threads[1].attached
    /\ ArasaacFile(2781) \notin images

\* C20: a queued item shows no picture until its fetch succeeds; a fetch that
\* fails without writing a file changes nothing on the timeline, a fetch
\* changes at most the image_filename of its own item, and after either the
\* thread goes on with the rest of its queue
C20_FetchFailureIsContained ==
    /\ [](\A t \in DOMAIN fetch_threads :
              /\ fetch_threads[t].queue # <<>>
              /\ fetch_threads[t].attached =>
                    \A k \in DOMAIN fetch_threads[t].queue :
                        \A i \in PositionsOf(schedule.items, fetch_threads[t].queue[k][1]) :
                            schedule.items[i].image_filename = NoFile)
    /\ [][FetchStep =>
              \E t \in DOMAIN fetch_threads :
                  LET thread == fetch_threads[t]
                      sched_item == Head(thread.queue)[1]
                      dest == ArasaacFile(Head(thread.queue)[2])
                  IN  /\ fetch_threads' =
                             IF Len(thread.queue) = 1
                             THEN WithoutRow(fetch_threads, t)
                             ELSE [fetch_threads EXCEPT ![t].queue = Tail(thread.queue)]
                      /\ dest \notin images /\ images' = images => schedule' = schedule
                      /\ \/ schedule' = schedule
                         \/ schedule' = [schedule EXCEPT
                                            !.items = SetImage(schedule.items, sched_item, dest)]
          ]_vars

\* Breakfast's fetch failed and left no file, and the thread went on to fetch
\* Get dressed and ended
C20_Witness ==
    /\ Len(schedule.items) = Len(get_builtin_templates[2]["items"])
    /\ schedule.items[2].image_filename = NoFile
    /\ ArasaacFile(4625) \notin images
    /\ schedule.items[3].image_filename = ArasaacFile(2781)
    /\ fetch_threads = <<>>

\* C16: marking an item done a second time changes nothing, and no step of Done,
\* Skip, Pause, a tick or the timer's finish (nor a drop) takes an item off the
\* timeline or turns its done flag from true to false
C16_DoneStaysDone ==
    /\ [](\A id \in ItemIds(schedule.items) :
              LET once == MarkDone(schedule.items, id)
              IN  /\ \A i \in PositionsOf(once, id) : once[i].done
                  /\ MarkDone(once, id) = once)
    /\ [][\A i \in DOMAIN schedule.items :
              schedule.items[i].done =>
                  /\ i \in DOMAIN schedule'.items
                  /\ schedule'.items[i].id = schedule.items[i].id
                  /\ schedule'.items[i].done]_vars

\* every activity of a timeline of two or more was done with Done or Skip
C16_Witness ==
    /\ Len(schedule.items) >= 2
    /\ \A i \in DOMAIN schedule.items : schedule.items[i].done
    /\ current_item = None
    /\ status[1] = "Completed"

SameButTimeAndDone(item, other) ==
    [item EXCEPT !.time_str = other.time_str, !.done = other.done] = other

\* C18: remove_item(id) gives the timeline without the item of that id, the others
\* in order and unchanged, and the same timeline when no item has the id; every
\* handler leaves the items in place (changing at most time_str and done), or
\* appends one item at the end, or takes one row out
C18_InsertionOrder ==
    /\ [](\A id \in Uuids :
              LET rows == PositionsOf(schedule.items, id)
              IN  remove_item(schedule.items, id) =
                      IF rows = {} THEN schedule.items
                      ELSE WithoutRow(schedule.items, MinOf(rows)))
    /\ [][\/ /\ Len(schedule'.items) = Len(schedule.items)
              /\ \A i \in DOMAIN schedule.items :
                    SameButTimeAndDone(schedule'.items[i], schedule.items[i])
           \/ /\ Len(schedule'.items) = Len(schedule.items) + 1
              /\ SubSeq(schedule'.items, 1, Len(schedule.items)) = schedule.items
           \/ \E i \in DOMAIN schedule.items :
                 schedule'.items = WithoutRow(schedule.items, i)]_vars

\* a row was taken out and an activity appended, and the rows' times and done
\* flags run against their order
C18_Witness ==
    /\ Len(schedule.items) = MaxItems
    /\ schedule.items[1].id > schedule.items[2].id
    /\ schedule.items[1].time_str = "09:30"
    /\ schedule.items[2].time_str = "08:00"
    /\ schedule.items[2].done /\ ~schedule.items[1].done

\* C19: a remove_image(id) that returns, for an id the library holds, leaves the
\* list without that item and with the others in order and unchanged, leaves
\* the images directory without the item's file and with every other file, and
\* leaves a library.json that loads as the list in memory
C19_RemovePresent ==
    [][\A item_id \in LibIds(lib_items) :
          removed' = "removed" /\ PictureLibrary_remove_image(item_id) =>
              LET row == get_by_id(lib_items, item_id)
              IN  /\ lib_items' = WithoutRow(lib_items, row)
                  /\ item_id \notin LibIds(lib_items')
                  /\ images' = images \ {lib_items[row]["filename"]}
                  /\ lib_file'.state = "ok"
                  /\ PictureLibrary_load(lib_file', <<>>) = lib_items'
      ]_vars

\* the picture the library started with was removed while two or more other
\* pictures remain, with their files, and library.json holds them
C19_Witness ==
    /\ removed = "removed"
    /\ Len(lib_items) >= 2
    /\ TimerLibrary[1]["id"] \notin LibIds(lib_items)
    /\ TimerLibrary[1]["filename"] \notin images
    /\ \A i \in DOMAIN lib_items : lib_items[i]["filename"] \in images
    /\ lib_file = [state |-> "ok", data |-> lib_items]

\* a load that reports an error
FailedLoadStep == status' = <<"Error loading", "">> /\ ScheduleView_on_load_done

\* C21: a load that reports an error leaves the ScheduleView's schedule, the
\* NowView's current item and Done button, and the timer as they were
C21_FailedLoadKeepsState ==
    [][FailedLoadStep =>
          /\ schedule' = schedule
          /\ UNCHANGED <<current_item, done_btn_sensitive, timerVars>>]_vars

\* a step of "Save as template" whose write succeeded and changed the file
TemplateSaveStep ==
    /\ tpl_files' # tpl_files
    /\ tpl_files'[SafeName(schedule.name)].state = "ok"
    /\ MainWindow_on_template_save

\* the saved template of that name holds, row by row, what the items hold
SnapshotOf(sch) ==
    \E tpl \in list_user_templates :
        /\ tpl["name"] = sch.name
        /\ DOMAIN tpl["items"] = DOMAIN sch.items
        /\ \A i \in DOMAIN sch.items :
              /\ tpl["items"][i]["id"] = sch.items[i].id
              /\ tpl["items"][i]["label"] = sch.items[i].label
              /\ tpl["items"][i]["time_str"] = sch.items[i].time_str
              /\ tpl["items"][i]["duration"] = sch.items[i].duration
              /\ tpl["items"][i]["done"] = sch.items[i].done

\* C22: what list_user_templates returns changes only in a step of Save as
\* template, which writes the file of the sanitized name of the schedule; a
\* successful save stores the schedule as it is at that moment, and adding,
\* removing, toggling, re-timing and renaming afterwards leave every saved
\* template as it was
C22_TemplateIsSnapshot ==
    [][/\ (tpl_files' # tpl_files =>
              /\ SafeName(schedule.name) \in DOMAIN tpl_files'
              /\ MainWindow_on_template_save
              /\ \A k \in DOMAIN tpl_files' :
                    k # SafeName(schedule.name) =>
                        k \in DOMAIN tpl_files /\ tpl_files'[k] = tpl_files[k])
       /\ (TemplateSaveStep => SnapshotOf(schedule)')]_vars

\* a saved template whose schedule has since been re-timed, toggled and shortened
C22_Witness ==
    \E tpl \in list_user_templates :
        /\ Len(tpl["items"]) > Len(schedule.items)
        /\ schedule.items # <<>>
        /\ tpl["items"][1]["id"] = schedule.items[1].id
        /\ tpl["items"][1]["done"] # schedule.items[1].done
        /\ tpl["items"][1]["time_str"] # schedule.items[1].time_str
        /\ tpl["name"] # schedule.name

\* C23: load() leaves the list empty when library.json is missing or cannot be
\* parsed, whatever the list held, and equal to the persisted list when the
\* file parses
C23_LoadFailsSoft ==
    [][BildstodApp_refresh_data =>
          lib_items' = (IF lib_file.state = "ok" THEN lib_file.data ELSE <<>>)]_vars

\* Done or Skip pressed while an activity is shown
PressStep ==
    /\ current_item # None
    /\ NowView_on_done_clicked \/ Timer_on_skip_clicked

\* C24: when an activity c is shown and n = get_next_activity(c) is what the
\* "Next:" preview shows, Done or Skip makes n the current item, and the view
\* is exhausted afterwards (no current item, Done button insensitive) exactly
\* when get_next_activity(c) was None
C24_PreviewIsNext ==
    [][PressStep =>
          LET n == get_next_activity(schedule.items, current_item)
          IN  /\ current_item' = ItemRef(schedule.items, n)
              /\ (current_item' = None) <=> (n = 0)
              /\ done_btn_sensitive' <=> (n # 0)]_vars

\* after a press the second of three activities is shown, the third pending
C24_Witness ==
    /\ Len(schedule.items) = 3
    /\ status[1] = "Completed"
    /\ schedule.items[1].done
    /\ current_item = schedule.items[2].id
    /\ ~schedule.items[3].done

\* C25: in every state between handlers a running timer belongs to the
\* activity shown: there is a current item, its duration is positive and
\* total_seconds is 60 times it; so the timer is not running when the view is
\* exhausted or the current item has duration 0
C25_TimerBelongsToCurrent ==
    running =>
        /\ current_item # None
        /\ ItemById(schedule.items, current_item).duration > 0
        /\ total_seconds = SecondsPerMinute * ItemById(schedule.items, current_item).duration

\* an activity is appended while another one is shown and stays shown
AppendKeepsCurrent ==
    /\ current_item # None
    /\ current_item' = current_item
    /\ Len(schedule'.items) = Len(schedule.items) + 1
    /\ ScheduleView_on_drop

\* C26: a change of the schedule that leaves the current activity the same
\* leaves remaining_seconds and running as they were
C26_SameCurrentKeepsCountdown ==
    [][AppendKeepsCurrent =>
          /\ remaining_seconds' = remaining_seconds
          /\ running' = running]_vars

\* Done or Skip pressed while the view is exhausted
IdlePressStep ==
    /\ current_item = None
    /\ NowView_on_done_clicked \/ Timer_on_skip_clicked

\* C27: a press of Done or Skip while an activity is shown reduces the number
\* of pending items by exactly one; the view is exhausted exactly when no item
\* is pending, so k presses exhaust k pending items; a press in the exhausted
\* view changes neither the schedule nor the view
C27_ProgressionTerminates ==
    /\ [](now_schedule = "attached" =>
             ((current_item = None) <=> (Pending(schedule.items) = {})))
    /\ [][/\ PressStep =>
               Cardinality(Pending(schedule'.items)) = Cardinality(Pending(schedule.items)) - 1
          /\ IdlePressStep =>
               /\ schedule' = schedule
               /\ current_item' = None
               /\ ~done_btn_sensitive']_vars

\* three activities were pressed through and the view is exhausted
C27_Witness ==
    /\ Len(schedule.items) = 3
    /\ Pending(schedule.items) = {}
    /\ current_item = None
    /\ status[1] = "Completed"
    /\ ~done_btn_sensitive

\* the one running thread, still attached to the timeline, ends its fetch of
\* pictogram p with the cache file in place that was not there before
CacheFileAppears(p) ==
    /\ ArasaacFile(p) \notin images
    /\ ArasaacFile(p) \in images'
    /\ Len(fetch_threads) = 1
    /\ fetch_threads[1].attached
    /\ Head(fetch_threads[1].queue)[2] = p
    /\ PositionsOf(schedule.items, Head(fetch_threads[1].queue)[1]) # {}
    /\ fetch_images_step

\* C28: arasaac_<id>.png comes to exist only in a fetch of that id that
\* completed successfully, that is, in a call of _ensure_arasaac_image that
\* returned the file name, which the thread then sets on its item; a failed
\* download leaves no file that a later existence check would take for the picture
C28_CacheFileMeansFetched ==
    [][\A p \in TemplatePictos :
          CacheFileAppears(p) =>
              \A i \in PositionsOf(schedule.items, Head(fetch_threads[1].queue)[1]) :
                  schedule'.items[i].image_filename = ArasaacFile(p)]_vars

\* a call of add_image or remove_image that raised
RaisedCall ==
    \/ returned' = "raised" /\ LibraryView_on_add_response
    \/ removed' = "raised" /\ (LibraryView_on_remove_clicked \/ PictureLibrary_remove_image_call)

\* C29: a call of add_image or remove_image that raises leaves the in-memory
\* list as it was before the call, and the list equals what library.json holds
\* from its last successful write
C29_MemoryMatchesDisk ==
    [][RaisedCall =>
          /\ lib_items' = lib_items
          /\ lib_file'.state = "ok" => lib_items' = lib_file'.data]_vars

\* C30: saving the timeline as a user template and loading that template
\* gives items with the same image_filename, label, time_str, duration and
\* category, in the same order
C30_TemplateRoundTripKeepsPictures ==
    LET saved == Schedule_to_dict(schedule)
        back == template_to_schedule(saved, images).schedule
    IN  /\ Len(back.items) = Len(schedule.items)
        /\ \A i \in DOMAIN schedule.items :
              /\ back.items[i].image_filename = schedule.items[i].image_filename
              /\ back.items[i].label = schedule.items[i].label
              /\ back.items[i].time_str = schedule.items[i].time_str
              /\ back.items[i].duration = schedule.items[i].duration
              /\ back.items[i].category = schedule.items[i].category

====
